---- MODULE Spec2Model ----
EXTENDS Integers, Sequences, FiniteSets, TLC

\* Model of scripts/process_m3u.py (class M3UProcessor).
\*
\* A Python str is modelled as a sequence of atoms.  An atom is a TLA+ string
\* that stands for a fixed run of characters ("EXTINF:", "group-title", a
\* channel name such as "CCTV1", one blank, one line feed ...).  str methods
\* and regular expressions are modelled by what they do on these sequences.
\* Non-ASCII literals of the source are transliterated:
\*   "ShandongWeishi" = U+5C71 U+4E1C U+536B U+89C6, "ShandongShaoer",
\*   "ShandongJingjiGuangbo", "CCTV4Europe", "CCTV4America" (channel names);
\*   "QitaPindao", "YangshiPindao", "GuangboPindao" (group titles).

VARIABLES
    pc,           \* position of process() in its body
    remote,       \* what requests.get(source_url) answers in this run
    content,      \* local `content` of process()
    channels,     \* self.channels
    hash_file,    \* the file self.hash_file: <<>> absent, <<text>> present
    output_file,  \* the file self.output_file: <<>> absent, <<text>> present
    result,       \* return value of process(): "none" while running
    last_call,    \* change gate driven call by call: the latest call and its answer
    saved         \* change gate: <<content>> of the latest save_current_hash, else <<>>

vars == <<pc, remote, content, channels, hash_file, output_file, result, last_call, saved>>

(***************************************************************************)
(* Bounds of the model                                                     *)
(***************************************************************************)
MaxChannels == 3   \* longest playlist (in entries) drawn for the rule engine
MaxLines == 4      \* longest raw text (in lines) drawn for the parser
MaxCalls == 5      \* longest sequence of change-gate calls

(***************************************************************************)
(* str helpers                                                             *)
(***************************************************************************)
NL == "\n"
Q == "\""

\* characters str.strip() removes
Whitespace == {" ", "\r", "\n"}

RECURSIVE lstrip(_)
lstrip(s) ==
    IF s # <<>> /\ s[1] \in Whitespace THEN lstrip(Tail(s)) ELSE s

RECURSIVE rstrip(_)
rstrip(s) ==
    IF s # <<>> /\ s[Len(s)] \in Whitespace
    THEN rstrip(SubSeq(s, 1, Len(s) - 1))
    ELSE s

\* str.strip()
strip(s) == rstrip(lstrip(s))

\* str.startswith(p)
startswith(s, p) == Len(s) >= Len(p) /\ SubSeq(s, 1, Len(p)) = p

\* p in s
contains(s, p) ==
    \E i \in 1..(Len(s) - Len(p) + 1) : SubSeq(s, i, i + Len(p) - 1) = p

\* str.split('\n')
RECURSIVE split(_)
split(s) ==
    IF \A i \in 1..Len(s) : s[i] # NL
    THEN <<s>>
    ELSE LET i == CHOOSE k \in 1..Len(s) :
                      s[k] = NL /\ \A j \in 1..(k - 1) : s[j] # NL
         IN  <<SubSeq(s, 1, i - 1)>> \o split(SubSeq(s, i + 1, Len(s)))

\* str.replace(old, new): every non-overlapping occurrence, left to right
RECURSIVE replace(_, _, _)
replace(s, old, new) ==
    IF s = <<>> THEN <<>>
    ELSE IF startswith(s, old)
         THEN new \o replace(SubSeq(s, Len(old) + 1, Len(s)), old, new)
         ELSE <<s[1]>> \o replace(Tail(s), old, new)

\* Where a match of  key="[^"]*"  that starts at the head of s ends; 0 if none.
attr_match_end(s, key) ==
    IF startswith(s, <<key, "=", Q>>) /\ \E j \in 4..Len(s) : s[j] = Q
    THEN CHOOSE j \in 4..Len(s) : s[j] = Q /\ \A k \in 4..(j - 1) : s[k] # Q
    ELSE 0

\* re.sub(r'key="[^"]*"', repl, s)
RECURSIVE re_sub_attr(_, _, _)
re_sub_attr(s, key, repl) ==
    IF s = <<>> THEN <<>>
    ELSE LET e == attr_match_end(s, key)
         IN  IF e > 0
             THEN repl \o re_sub_attr(SubSeq(s, e + 1, Len(s)), key, repl)
             ELSE <<s[1]>> \o re_sub_attr(Tail(s), key, repl)

(***************************************************************************)
(* Record fields derived from the metadata line                            *)
(***************************************************************************)
\* re.search(r',([^,]+)$', extinf_line), group(1).strip()
extract_channel_name(extinf_line) ==
    LET commas == {i \in 1..Len(extinf_line) : extinf_line[i] = ","}
    IN  IF commas = {} THEN <<>>
        ELSE LET c == CHOOSE i \in commas : \A j \in commas : j <= i
             IN  IF c = Len(extinf_line) THEN <<>>
                 ELSE strip(SubSeq(extinf_line, c + 1, Len(extinf_line)))

\* re.search(f'{attribute_name}="([^"]*)"', extinf_line), group(1)
extract_tvg_attribute(extinf_line, attribute_name) ==
    LET starts == {i \in 1..Len(extinf_line) :
                      attr_match_end(SubSeq(extinf_line, i, Len(extinf_line)),
                                     attribute_name) > 0}
    IN  IF starts = {} THEN <<>>
        ELSE LET i == CHOOSE k \in starts : \A j \in starts : k <= j
                 e == attr_match_end(SubSeq(extinf_line, i, Len(extinf_line)),
                                     attribute_name)
             IN  SubSeq(extinf_line, i + 3, i + e - 2)

(***************************************************************************)
(* Python list helpers (indices are 0-based as in the source)              *)
(***************************************************************************)
at(l, i) == l[i + 1]

\* list.pop(i): the list that remains
py_pop(l, i) == SubSeq(l, 1, i) \o SubSeq(l, i + 2, Len(l))

\* list.insert(i, x), i >= 0: an index past the end appends
py_insert(l, i, x) ==
    IF i >= Len(l) THEN Append(l, x)
    ELSE SubSeq(l, 1, i) \o <<x>> \o SubSeq(l, i + 1, Len(l))

\* sorted(l, reverse=True) for a list of distinct integers
RECURSIVE sorted_reverse(_)
sorted_reverse(l) ==
    IF l = <<>> THEN <<>>
    ELSE LET m == CHOOSE k \in 1..Len(l) : \A j \in 1..Len(l) : l[j] <= l[k]
         IN  <<l[m]>> \o sorted_reverse(SubSeq(l, 1, m - 1) \o SubSeq(l, m + 1, Len(l)))

(***************************************************************************)
(* parse_m3u                                                               *)
(***************************************************************************)
\* the dict built at an #EXTINF: line; url None is <<>>
new_channel(line, n) ==
    [extinf |-> line,
     url |-> <<>>,
     name |-> extract_channel_name(line),
     tvg_name |-> extract_tvg_attribute(line, "tvg-name"),
     group_title |-> extract_tvg_attribute(line, "group-title"),
     original_index |-> n]

\* flush with the test of 'url' forgotten
flush_without_url_test(chans, cur) ==
    IF cur # <<>> THEN Append(chans, cur[1]) ELSE chans

\* `current_channel and current_channel.get('url')`; cur is <<>> for {} and <<c>> otherwise
flush(chans, cur) ==
    IF cur # <<>> /\ cur[1].url # <<>> THEN Append(chans, cur[1]) ELSE chans

\* the loop over lines, then the check after it
RECURSIVE parse_lines(_, _, _)
parse_lines(lines, chans, cur) ==
    IF lines = <<>> THEN flush(chans, cur)
    ELSE LET line == strip(Head(lines))
             rest == Tail(lines)
         IN  IF line = <<>> THEN parse_lines(rest, chans, cur)
             ELSE IF startswith(line, <<"#", "EXTM3U">>) THEN parse_lines(rest, chans, cur)
             ELSE IF startswith(line, <<"#", "EXTINF:">>)
                  THEN parse_lines(rest, flush(chans, cur),
                                   <<new_channel(line, Len(flush(chans, cur)))>>)
             ELSE IF ~startswith(line, <<"#">>) /\ cur # <<>>
                  THEN parse_lines(rest, Append(chans, [cur[1] EXCEPT !.url = line]), <<>>)
             ELSE parse_lines(rest, chans, cur)

parse_m3u(text) == parse_lines(split(text), <<>>, <<>>)

(***************************************************************************)
(* update_group_title                                                      *)
(***************************************************************************)
\* f'group-title="{new_group_title}"'
group_attr(new_group_title) == <<"group-title", "=", Q>> \o new_group_title \o <<Q>>

ExtinfPrefix == <<"#", "EXTINF:", "-1", " ">>

\* update_group_title with the test for an existing attribute forgotten
update_group_title_always_inserts(channel, new_group_title) ==
    [channel EXCEPT
        !.extinf = replace(channel.extinf, ExtinfPrefix,
                           ExtinfPrefix \o group_attr(new_group_title) \o <<" ">>),
        !.group_title = new_group_title]

update_group_title(channel, new_group_title) ==
    LET old_extinf == channel.extinf
        new_extinf ==
            IF contains(old_extinf, <<"group-title", "=">>)
            THEN re_sub_attr(old_extinf, "group-title", group_attr(new_group_title))
            ELSE replace(old_extinf, ExtinfPrefix,
                         ExtinfPrefix \o group_attr(new_group_title) \o <<" ">>)
    IN  [channel EXCEPT !.extinf = new_extinf, !.group_title = new_group_title]

(***************************************************************************)
(* Pattern matcher                                                         *)
(***************************************************************************)
\* the any(...) test of both finders
name_matches(name, name_patterns, exact_match) ==
    IF exact_match
    THEN \E pattern \in name_patterns : pattern = name
    ELSE \E pattern \in name_patterns : contains(name, pattern)

\* first matching index, -1 if none
find_channel_index(chans, name_patterns, exact_match) ==
    LET hits == {i \in 0..(Len(chans) - 1) :
                    name_matches(at(chans, i).name, name_patterns, exact_match)}
    IN  IF hits = {} THEN -1
        ELSE CHOOSE i \in hits : \A j \in hits : i <= j

RECURSIVE indices_from(_, _, _, _)
indices_from(chans, i, name_patterns, exact_match) ==
    IF i >= Len(chans) THEN <<>>
    ELSE (IF name_matches(at(chans, i).name, name_patterns, exact_match)
          THEN <<i>> ELSE <<>>)
         \o indices_from(chans, i + 1, name_patterns, exact_match)

\* every matching index, ascending
find_all_channel_indices(chans, name_patterns, exact_match) ==
    indices_from(chans, 0, name_patterns, exact_match)

(***************************************************************************)
(* move_channels_after_target                                              *)
(***************************************************************************)
\* for idx in sorted(source_indices, reverse=True): pop(idx); channels_to_move.insert(0, .)
RECURSIVE pop_sources(_, _, _)
pop_sources(chans, idxs, channels_to_move) ==
    IF idxs = <<>> THEN [chans |-> chans, channels_to_move |-> channels_to_move]
    ELSE pop_sources(py_pop(chans, Head(idxs)), Tail(idxs),
                     py_insert(channels_to_move, 0, at(chans, Head(idxs))))

\* for channel in channels_to_move: insert(insert_position, channel); insert_position += 1
RECURSIVE insert_all(_, _, _)
insert_all(chans, channels_to_move, insert_position) ==
    IF channels_to_move = <<>> THEN chans
    ELSE insert_all(py_insert(chans, insert_position, Head(channels_to_move)),
                    Tail(channels_to_move), insert_position + 1)

\* self.channels after the call
move_channels_after_target(chans, source_patterns, target_pattern, exact_match) ==
    LET target_idx == find_channel_index(chans, {target_pattern}, exact_match)
        source_indices == find_all_channel_indices(chans, source_patterns, exact_match)
    IN  IF target_idx = -1 THEN chans
        ELSE IF source_indices = <<>> THEN chans
        ELSE LET p == pop_sources(chans, sorted_reverse(source_indices), <<>>)
             IN  insert_all(p.chans, p.channels_to_move, target_idx + 1)

(***************************************************************************)
(* process_channels: its four steps                                        *)
(***************************************************************************)
\* step 1 relabelling every channel instead of the matched ones
step1_relabels_all(chans) ==
    [i \in 1..Len(chans) |-> update_group_title(chans[i], <<"QitaPindao">>)]

\* 1. every channel whose name contains CGTN gets the group "QitaPindao"
step1(chans) ==
    LET cgtn_indices == find_all_channel_indices(chans, {<<"CGTN">>}, FALSE)
    IN  [i \in 1..Len(chans) |->
            IF \E k \in 1..Len(cgtn_indices) : cgtn_indices[k] = i - 1
            THEN update_group_title(chans[i], <<"QitaPindao">>)
            ELSE chans[i]]

\* step 2 with the test of the anchor's index forgotten: a miss (-1) inserts at 0
step2_unchecked_anchor(chans) ==
    LET shandong_idx == find_channel_index(chans, {<<"ShandongWeishi">>}, TRUE)
        cctv1_idx == find_channel_index(chans, {<<"CCTV1">>, <<"CCTV-1">>}, FALSE)
    IN  IF shandong_idx # -1
        THEN py_insert(chans, cctv1_idx + 1,
                       update_group_title(at(chans, shandong_idx), <<"YangshiPindao">>))
        ELSE chans

\* step 2 inserting at the anchor's index instead of the one after it
step2_inserts_before(chans) ==
    LET shandong_idx == find_channel_index(chans, {<<"ShandongWeishi">>}, TRUE)
        cctv1_idx == find_channel_index(chans, {<<"CCTV1">>, <<"CCTV-1">>}, FALSE)
    IN  IF shandong_idx # -1 /\ cctv1_idx # -1
        THEN py_insert(chans, cctv1_idx,
                       update_group_title(at(chans, shandong_idx), <<"YangshiPindao">>))
        ELSE chans

\* 2. a copy of ShandongWeishi, regrouped "YangshiPindao", goes after CCTV1
step2(chans) ==
    LET shandong_idx == find_channel_index(chans, {<<"ShandongWeishi">>}, TRUE)
        cctv1_idx == find_channel_index(chans, {<<"CCTV1">>, <<"CCTV-1">>}, FALSE)
    IN  IF shandong_idx # -1 /\ cctv1_idx # -1
        THEN LET original_shandong == at(chans, shandong_idx)
                 copied_shandong == update_group_title(original_shandong, <<"YangshiPindao">>)
                 insert_position == cctv1_idx + 1
             IN  py_insert(chans, insert_position, copied_shandong)
        ELSE chans

\* source_patterns and target_pattern of step 3
SourcePatterns == {<<"CCTV4Europe">>, <<"CCTV4America">>}
TargetPattern == <<"ShandongShaoer">>

\* 3. CCTV4Europe and CCTV4America move after ShandongShaoer
step3(chans) ==
    move_channels_after_target(chans, SourcePatterns, TargetPattern, FALSE)

\* step 4 moving the record without relabelling it
step4_moves_unlabelled(chans) ==
    LET shandong_economic_radio_idx ==
            find_channel_index(chans, {<<"ShandongJingjiGuangbo">>}, TRUE)
    IN  IF shandong_economic_radio_idx # -1
        THEN Append(py_pop(chans, shandong_economic_radio_idx),
                    at(chans, shandong_economic_radio_idx))
        ELSE chans

\* 4. ShandongJingjiGuangbo is regrouped "GuangboPindao" and moved to the end
step4(chans) ==
    LET shandong_economic_radio_idx ==
            find_channel_index(chans, {<<"ShandongJingjiGuangbo">>}, TRUE)
    IN  IF shandong_economic_radio_idx # -1
        THEN LET radio_channel ==
                     update_group_title(at(chans, shandong_economic_radio_idx),
                                        <<"GuangboPindao">>)
             IN  Append(py_pop(chans, shandong_economic_radio_idx), radio_channel)
        ELSE chans

(***************************************************************************)
(* generate_m3u_content                                                    *)
(***************************************************************************)
SOURCE_M3U_URL == "https://raw.githubusercontent.com/plsy1/iptv/refs/heads/main/unicast.m3u"

\* the f-string header; now is datetime.now().strftime(...)
header(now) ==
    <<"#", "EXTM3U", NL,
      "#", " ", "Generated by GitHub Actions", NL,
      "#", " ", "Source:", " ", SOURCE_M3U_URL, NL,
      "#", " ", "Processed at:", " ", now, NL,
      "#", " ", "rules:", NL,
      "#", " ", "1.", " ", "CGTN", NL,
      "#", " ", "2.", " ", "ShandongWeishi", NL,
      "#", " ", "3.", " ", "CCTV4Europe", NL,
      "#", " ", "4.", " ", "ShandongJingjiGuangbo", NL,
      NL>>

\* the body with no line feed after a locator line
RECURSIVE body_unterminated(_)
body_unterminated(chans) ==
    IF chans = <<>> THEN <<>>
    ELSE Head(chans).extinf \o <<NL>> \o Head(chans).url \o body_unterminated(Tail(chans))

RECURSIVE body(_)
body(chans) ==
    IF chans = <<>> THEN <<>>
    ELSE Head(chans).extinf \o <<NL>> \o Head(chans).url \o <<NL>> \o body(Tail(chans))

generate_m3u_content_unterminated(chans, now) == header(now) \o body_unterminated(chans)

generate_m3u_content(chans, now) == header(now) \o body(chans)

(***************************************************************************)
(* Change gate                                                             *)
(***************************************************************************)
\* hashlib.md5(...).hexdigest(): one-to-one on the texts of the model, and,
\* like a hex digest, without white space at either end
get_content_hash(text) == <<"md5(">> \o text \o <<")">>

\* get_previous_hash without strip()
get_previous_hash_unstripped(file) ==
    IF file # <<>> THEN <<file[1]>> ELSE <<>>

\* None is <<>>, a digest d is <<d>>
get_previous_hash(file) ==
    IF file # <<>> THEN <<strip(file[1])>> ELSE <<>>

\* save_current_hash digesting the stripped text
save_current_hash_of_stripped(text) == <<get_content_hash(strip(text))>>

\* what save_current_hash leaves in the hash file
save_current_hash(text) == <<get_content_hash(text)>>

has_source_changed(file, text) ==
    LET current_hash == get_content_hash(text)
        previous_hash == get_previous_hash(file)
    IN  IF previous_hash = <<>> THEN TRUE
        ELSE IF current_hash = previous_hash[1] THEN FALSE
        ELSE TRUE

(***************************************************************************)
(* Inputs: the documents the source URL may serve                          *)
(***************************************************************************)
\* all sequences over S of length at most n
SeqsUpTo(S, n) == UNION {[1..k -> S] : k \in 0..n}

RECURSIVE join_lines(_)
join_lines(lines) ==
    IF lines = <<>> THEN <<>>
    ELSE Head(lines) \o <<NL>> \o join_lines(Tail(lines))

GroupG1 == <<" ", "group-title", "=", Q, "g1", Q>>
TvgName == <<" ", "tvg-name", "=", Q, "n1", Q>>

\* one playlist entry: its metadata line and its locator line
Entry(attrs, name, u) ==
    <<(<<"#", "EXTINF:", "-1">> \o attrs \o <<",">> \o name), <<"http://", u>>>>

Entries ==
    { Entry(TvgName, <<"CGTN">>, "u1"),
      Entry(<<>>, <<"CGTN", "Doc">>, "u2"),
      Entry(GroupG1, <<"ShandongWeishi">>, "u3"),
      Entry(TvgName, <<"ShandongWeishi", "4K">>, "u4"),
      Entry(GroupG1, <<"CCTV1">>, "u5"),
      Entry(GroupG1, <<"CCTV4Europe">>, "u6"),
      Entry(<<>>, <<"CCTV4America">>, "u7"),
      Entry(TvgName, <<"ShandongShaoer">>, "u8"),
      Entry(<<>>, <<"ShandongJingjiGuangbo">>, "u9"),
      Entry(TvgName \o GroupG1, <<"Other">>, "u0") }

RECURSIVE entry_lines(_)
entry_lines(es) ==
    IF es = <<>> THEN <<>> ELSE Head(es) \o entry_lines(Tail(es))

\* a well-formed playlist: the marker line, then the entries
Playlist(es) == join_lines(<<(<<"#", "EXTM3U">>)>> \o entry_lines(es))

Playlists == {Playlist(es) : es \in SeqsUpTo(Entries, MaxChannels)}

\* raw lines of any shape: blank, CR-terminated, padded, comments, metadata, locators
RawLines ==
    { <<>>,
      <<"#", "EXTM3U", "\r">>,
      <<"#", " ", "note">>,
      <<"#", "EXTINF:", "-1", " ", "group-title", "=", Q, "g1", Q, ",", "CGTN", "\r">>,
      <<" ", "#", "EXTINF:", "-1", ",", " ", "ShandongJingjiGuangbo">>,
      <<"http://", "u1", "\r">>,
      <<" ", "http://", "u2", " ">> }

RawTexts == {join_lines(ls) : ls \in SeqsUpTo(RawLines, MaxLines)}

\* the documents and files of the change-gate cases
GateTextA == Playlist(<<Entry(GroupG1, <<"CGTN">>, "u1")>>)
GateTextB == Playlist(<<Entry(<<>>, <<"ShandongJingjiGuangbo">>, "u9"),
                        Entry(GroupG1, <<"Other">>, "u0")>>)
GateTextC == Playlist(<<>>)
GateTexts == {GateTextA, GateTextB, GateTextC}

\* a hash file left by an earlier run, edited by hand (final line feed), or empty
GateHashFiles ==
    { <<>>, <<(<<>>)>>,
      <<get_content_hash(GateTextA)>>,
      <<get_content_hash(GateTextA) \o <<NL>>>> }

GateOutputFiles == { <<>>, <<generate_m3u_content(parse_m3u(GateTextA), "t0")>> }

Times == {"t1", "t2"}

Ok(text) == [ok |-> TRUE, text |-> text]
RequestError == [ok |-> FALSE, text |-> <<>>]

NoCall == [op |-> "none", arg |-> <<>>, ret |-> FALSE, n |-> 0]

(***************************************************************************)
(* process(): one run                                                      *)
(***************************************************************************)
\* a run whose files are those of the change-gate cases
InitFiles ==
    /\ remote \in {Ok(t) : t \in GateTexts} \cup {RequestError}
    /\ hash_file \in GateHashFiles
    /\ output_file \in GateOutputFiles

\* a first run (no hash file, no output file) on the document T serves
InitFirstRun(T) ==
    /\ remote \in {Ok(t) : t \in T}
    /\ hash_file = <<>>
    /\ output_file = <<>>

InitRun(T) ==
    /\ pc = "start"
    /\ content = <<>>
    /\ channels = <<>>
    /\ result = "none"
    /\ last_call = NoCall
    /\ saved = <<>>
    /\ (InitFiles \/ InitFirstRun(T))

Init == InitRun(Playlists)

InitParse == InitRun(RawTexts)

GateVars == <<hash_file, output_file, last_call, saved>>

\* content = self.download_file()
Download ==
    /\ pc = "start"
    /\ remote.ok
    /\ content' = remote.text
    /\ pc' = "gate"
    /\ UNCHANGED <<remote, channels, result>>
    /\ UNCHANGED GateVars

\* requests.get / raise_for_status raises: except Exception: return False
DownloadFails ==
    /\ pc = "start"
    /\ ~remote.ok
    /\ pc' = "done"
    /\ result' = "False"
    /\ UNCHANGED <<remote, content, channels>>
    /\ UNCHANGED GateVars

Placeholder == <<"#", " ", "unchanged", NL>>

\* if not self.has_source_changed(content): ... return True
Skip ==
    /\ pc = "gate"
    /\ ~has_source_changed(hash_file, content)
    /\ output_file' = IF output_file = <<>> THEN <<Placeholder>> ELSE output_file
    /\ pc' = "done"
    /\ result' = "True"
    /\ UNCHANGED <<remote, content, channels, hash_file, last_call, saved>>

\* the placeholder write raises: the file is not created, or is left empty
SkipWriteFails ==
    /\ pc = "gate"
    /\ ~has_source_changed(hash_file, content)
    /\ output_file = <<>>
    /\ output_file' \in {<<>>, <<(<<>>)>>}
    /\ pc' = "done"
    /\ result' = "False"
    /\ UNCHANGED <<remote, content, channels, hash_file, last_call, saved>>

\* self.parse_m3u(content)
Parse ==
    /\ pc = "gate"
    /\ has_source_changed(hash_file, content)
    /\ channels' = parse_m3u(content)
    /\ pc' = "step1"
    /\ UNCHANGED <<remote, content, result>>
    /\ UNCHANGED GateVars

Step1 ==
    /\ pc = "step1"
    /\ channels' = step1(channels)
    /\ pc' = "step2"
    /\ UNCHANGED <<remote, content, result>>
    /\ UNCHANGED GateVars

Step2 ==
    /\ pc = "step2"
    /\ channels' = step2(channels)
    /\ pc' = "step3"
    /\ UNCHANGED <<remote, content, result>>
    /\ UNCHANGED GateVars

Step3 ==
    /\ pc = "step3"
    /\ channels' = step3(channels)
    /\ pc' = "step4"
    /\ UNCHANGED <<remote, content, result>>
    /\ UNCHANGED GateVars

Step4 ==
    /\ pc = "step4"
    /\ channels' = step4(channels)
    /\ pc' = "write"
    /\ UNCHANGED <<remote, content, result>>
    /\ UNCHANGED GateVars

\* new_content = self.generate_m3u_content(); open(output_file, 'w').write(new_content)
WriteOutput ==
    /\ pc = "write"
    /\ \E now \in Times : output_file' = <<generate_m3u_content(channels, now)>>
    /\ pc' = "save"
    /\ UNCHANGED <<remote, content, channels, result, hash_file, last_call, saved>>

\* a failed write of the output with the digest saved all the same
WriteFailsAfterCommit ==
    /\ pc = "write"
    /\ output_file' \in {output_file, <<(<<>>)>>}
    /\ hash_file' = save_current_hash(content)
    /\ pc' = "done"
    /\ result' = "False"
    /\ UNCHANGED <<remote, content, channels, last_call, saved>>

\* open or write raises: the file is untouched, or is left truncated
WriteFails ==
    /\ pc = "write"
    /\ output_file' \in {output_file, <<(<<>>)>>}
    /\ pc' = "done"
    /\ result' = "False"
    /\ UNCHANGED <<remote, content, channels, hash_file, last_call, saved>>

\* self.save_current_hash(content); return True
SaveHash ==
    /\ pc = "save"
    /\ hash_file' = save_current_hash(content)
    /\ pc' = "done"
    /\ result' = "True"
    /\ UNCHANGED <<remote, content, channels, output_file, last_call, saved>>

\* save_current_hash raises: the hash file is untouched, or is left truncated
SaveHashFails ==
    /\ pc = "save"
    /\ hash_file' \in {hash_file, <<(<<>>)>>}
    /\ pc' = "done"
    /\ result' = "False"
    /\ UNCHANGED <<remote, content, channels, output_file, last_call, saved>>

\* main(): exit(1) when process() returned False
main_exit_status(success) == IF success = "False" THEN 1 ELSE 0

Next ==
    \/ Download
    \/ DownloadFails
    \/ Skip
    \/ SkipWriteFails
    \/ Parse
    \/ Step1
    \/ Step2
    \/ Step3
    \/ Step4
    \/ WriteOutput
    \/ WriteFails
    \/ SaveHash
    \/ SaveHashFails

Spec == Init /\ [][Next]_vars

SpecParse == InitParse /\ [][Next]_vars

(***************************************************************************)
(* The change gate, driven call by call                                    *)
(***************************************************************************)
InitGate ==
    /\ pc = "start"
    /\ remote = RequestError
    /\ content = <<>>
    /\ channels = <<>>
    /\ result = "none"
    /\ output_file = <<>>
    /\ hash_file \in GateHashFiles
    /\ last_call = NoCall
    /\ saved = <<>>

RunVars == <<pc, remote, content, channels, result, output_file>>

CallHasSourceChanged(text) ==
    /\ last_call.n < MaxCalls
    /\ last_call' = [op |-> "has_source_changed", arg |-> text,
                     ret |-> has_source_changed(hash_file, text), n |-> last_call.n + 1]
    /\ UNCHANGED <<hash_file, saved>>
    /\ UNCHANGED RunVars

CallSaveCurrentHash(text) ==
    /\ last_call.n < MaxCalls
    /\ hash_file' = save_current_hash(text)
    /\ saved' = <<text>>
    /\ last_call' = [op |-> "save_current_hash", arg |-> text,
                     ret |-> FALSE, n |-> last_call.n + 1]
    /\ UNCHANGED RunVars

NextGate ==
    \/ \E text \in GateTexts : CallHasSourceChanged(text)
    \/ \E text \in GateTexts : CallSaveCurrentHash(text)

SpecGate == InitGate /\ [][NextGate]_vars

(***************************************************************************)
(* Properties                                                              *)
(***************************************************************************)
\* the records of chans at the 0-based indices idxs, in that order
pick(chans, idxs) == [k \in 1..Len(idxs) |-> at(chans, idxs[k])]

RECURSIVE without_names(_, _)
without_names(chans, name_patterns) ==
    IF chans = <<>> THEN <<>>
    ELSE (IF name_matches(Head(chans).name, name_patterns, FALSE)
          THEN <<>> ELSE <<Head(chans)>>)
         \o without_names(Tail(chans), name_patterns)

\* after is before with its source records taken out and put back, in their
\* order, as one block right behind the anchor (the leftmost match of the
\* target pattern among the records that stay)
BlockAfterAnchor(before, after) ==
    LET moved == pick(before, find_all_channel_indices(before, SourcePatterns, FALSE))
        kept == without_names(before, SourcePatterns)
        a == find_channel_index(kept, {TargetPattern}, FALSE) + 1
    IN  after = SubSeq(kept, 1, a) \o moved \o SubSeq(kept, a + 1, Len(kept))

Step3Applies(chans) ==
    /\ find_channel_index(chans, {TargetPattern}, FALSE) # -1
    /\ find_all_channel_indices(chans, SourcePatterns, FALSE) # <<>>

\* C1: whenever step 3 finds the anchor and at least one source record, the
\* source records end up as one block, in their original order, immediately
\* after the anchor's position in the resulting sequence, and the other
\* records keep their relative order.
C1_RelocateSetAfterAnchor ==
    [][(pc = "step3" /\ pc' = "step4" /\ Step3Applies(channels))
          => BlockAfterAnchor(channels, channels')]_vars

\* C2: whenever step 2 finds the exact source name and an anchor match, the
\* sequence grows by one record; the new record sits right after the leftmost
\* anchor match, has the source's locator line and display name and the target
\* group; the source record and every other record are as before, in order.
C2_DuplicateAfterAnchor ==
    [][(pc = "step2" /\ pc' = "step3")
          => LET s == {i \in 1..Len(channels) : channels[i].name = <<"ShandongWeishi">>}
                 a == {i \in 1..Len(channels) :
                          \/ contains(channels[i].name, <<"CCTV1">>)
                          \/ contains(channels[i].name, <<"CCTV-1">>)}
             IN  IF s # {} /\ a # {}
                 THEN LET src == CHOOSE i \in s : \A j \in s : i <= j
                          anc == CHOOSE i \in a : \A j \in a : i <= j
                      IN  /\ Len(channels') = Len(channels) + 1
                          /\ \A i \in 1..anc : channels'[i] = channels[i]
                          /\ \A i \in (anc + 1)..Len(channels) : channels'[i + 1] = channels[i]
                          /\ channels'[anc + 1].url = channels[src].url
                          /\ channels'[anc + 1].name = channels[src].name
                          /\ channels'[anc + 1].group_title = <<"YangshiPindao">>
                 ELSE channels' = channels]_vars

\* a run in which step 2 inserted the copy, the source standing after the anchor
C2_Witness ==
    /\ pc = "step3"
    /\ Len(channels) = Len(parse_m3u(content)) + 1
    /\ \E i \in 1..Len(channels) :
          /\ channels[i].group_title = <<"YangshiPindao">>
          /\ channels[i].name = <<"ShandongWeishi">>
          /\ \E j \in (i + 1)..Len(channels) :
                channels[j].name = <<"ShandongWeishi">> /\ channels[j].group_title = <<"g1">>

\* C3: has_source_changed(X) answers True when no digest is stored; after
\* save_current_hash(X) and until the next save it answers False for X and
\* True for every other text; it never changes the stored digest.
C3_ChangeGate ==
    [][(last_call'.n = last_call.n + 1 /\ last_call'.op = "has_source_changed")
          => /\ hash_file' = hash_file
             /\ (hash_file = <<>> => last_call'.ret)
             /\ (saved # <<>> => (last_call'.ret <=> last_call'.arg # saved[1]))]_vars

\* a gate call that answers False for the text saved before it
C3_Witness ==
    /\ last_call.op = "has_source_changed"
    /\ saved = <<last_call.arg>>
    /\ ~last_call.ret

\* the (metadataLine, locatorLine) pairs of a sequence
pairs(chans) == [i \in 1..Len(chans) |-> <<chans[i].extinf, chans[i].url>>]

\* C4: rendering the parsed sequence, parsing that text and rendering again
\* under the same header gives the same text, and the parse of the rendered
\* text has the (metadataLine, locatorLine) pairs that were rendered.
C4_RoundTrip ==
    pc \in {"step1", "step2", "step3", "step4", "write"}
        => \A now \in Times :
              LET text == generate_m3u_content(channels, now)
              IN  /\ generate_m3u_content(parse_m3u(text), now) = text
                  /\ pairs(parse_m3u(text)) = pairs(channels)

\* a parsed text of two records that was not in rendered form itself
C4_Witness ==
    /\ pc = "step1"
    /\ Len(channels) >= 2
    /\ body(channels) # content
    /\ \E i \in 1..Len(content) : content[i] = "\r"

\* the lines of a text as parse_m3u sees them
stripped_lines(text) == [i \in 1..Len(split(text)) |-> strip(split(text)[i])]

IsMetadata(line) == startswith(line, <<"#", "EXTINF:">>)
IsLocator(line) == line # <<>> /\ ~startswith(line, <<"#">>)

\* the metadata line a locator line at j is paired with: the latest one before
\* j, provided no locator line lies between the two; 0 if there is none
pending_metadata(L, j) ==
    LET ms == {i \in 1..(j - 1) : IsMetadata(L[i])}
    IN  IF ms = {} THEN 0
        ELSE LET m == CHOOSE i \in ms : \A k \in ms : k <= i
             IN  IF \E k \in (m + 1)..(j - 1) : IsLocator(L[k]) THEN 0 ELSE m

RECURSIVE expected_pairs(_, _)
expected_pairs(L, j) ==
    IF j > Len(L) THEN <<>>
    ELSE (IF IsLocator(L[j]) /\ pending_metadata(L, j) # 0
          THEN << <<L[pending_metadata(L, j)], L[j]>> >> ELSE <<>>)
         \o expected_pairs(L, j + 1)

\* C5: parse emits one record per locator line that has a pending metadata
\* line, paired with the latest metadata line, in input order; every record
\* has a metadata line and a non-empty locator line; a metadata line with no
\* locator before the next metadata line or the end gives no record.
C5_ParserPairing ==
    pc = "step1"
        => /\ pairs(channels) = expected_pairs(stripped_lines(content), 1)
           /\ \A i \in 1..Len(channels) :
                 /\ IsMetadata(channels[i].extinf)
                 /\ channels[i].url # <<>>
                 /\ channels[i].original_index = i - 1

\* a parse that emitted a record and dropped a metadata line
C5_Witness ==
    /\ pc = "step1"
    /\ Len(channels) >= 1
    /\ Cardinality({i \in 1..Len(stripped_lines(content)) :
                       IsMetadata(stripped_lines(content)[i])}) > Len(channels)

Groups == {<<"QitaPindao">>, <<"YangshiPindao">>, <<"GuangboPindao">>, <<"g1">>}

\* C6: after update_group_title(record, g) the metadata line carries the group
\* attribute with value g, equal to the stored group_title, and the display
\* name and the other attributes of the metadata line are as before.
C6_GroupUpsert ==
    pc = "step1"
        => \A i \in 1..Len(channels) : \A g \in Groups :
              LET r == update_group_title(channels[i], g)
              IN  /\ r.group_title = g
                  /\ extract_tvg_attribute(r.extinf, "group-title") = g
                  /\ extract_channel_name(r.extinf) = channels[i].name
                  /\ extract_tvg_attribute(r.extinf, "tvg-name") = channels[i].tvg_name

\* C7: relabelling twice with the same group leaves the metadata line and the
\* group value that relabelling once leaves; so step 1 applied to its own
\* result changes nothing.
C7_RelabelIdempotent ==
    /\ pc = "step1"
          => \A i \in 1..Len(channels) : \A g \in Groups :
                update_group_title(update_group_title(channels[i], g), g)
                    = update_group_title(channels[i], g)
    /\ pc = "step2" => step1(channels) = channels

\* step 1 has relabelled a record whose metadata line had no group attribute
C7_Witness ==
    /\ pc = "step2"
    /\ \E i \in 1..Len(channels) :
          /\ channels[i].group_title = <<"QitaPindao">>
          /\ parse_m3u(content)[i].group_title = <<>>
          /\ channels[i].extinf # parse_m3u(content)[i].extinf

\* no duplicate or relocation rule finds its targets among these records
NoRuleTargets(chans) ==
    LET has(name_patterns, exact_match) ==
            find_channel_index(chans, name_patterns, exact_match) # -1
    IN  /\ ~(has({<<"ShandongWeishi">>}, TRUE) /\ has({<<"CCTV1">>, <<"CCTV-1">>}, FALSE))
        /\ ~(has({TargetPattern}, FALSE) /\ has(SourcePatterns, FALSE))
        /\ ~has({<<"ShandongJingjiGuangbo">>}, TRUE)

\* C8: step 1 changes only the metadata line and group of the records whose
\* name contains the pattern: length, positions, locator lines and unmatched
\* records stay.  So when no later rule finds its targets the records leave
\* process_channels in parsed order.
C8_RelabelKeepsOrder ==
    [][/\ (pc = "step1" /\ pc' = "step2")
             => /\ Len(channels') = Len(channels)
                /\ \A i \in 1..Len(channels) :
                      IF contains(channels[i].name, <<"CGTN">>)
                      THEN /\ channels'[i].url = channels[i].url
                           /\ channels'[i].name = channels[i].name
                           /\ channels'[i].tvg_name = channels[i].tvg_name
                           /\ channels'[i].original_index = channels[i].original_index
                           /\ channels'[i].group_title = <<"QitaPindao">>
                      ELSE channels'[i] = channels[i]
       /\ (pc = "step4" /\ pc' = "write" /\ NoRuleTargets(channels'))
             => /\ Len(channels') = Len(parse_m3u(content))
                /\ \A i \in 1..Len(channels') :
                      /\ channels'[i].original_index = i - 1
                      /\ channels'[i].url = parse_m3u(content)[i].url]_vars

\* step 1 relabelled one record and left another, and no later rule applied
C8_Witness ==
    /\ pc = "write"
    /\ NoRuleTargets(channels)
    /\ \E i, j \in 1..Len(channels) :
          /\ channels[i].group_title = <<"QitaPindao">>
          /\ channels[i].extinf # parse_m3u(content)[i].extinf
          /\ ~contains(channels[j].name, <<"CGTN">>)

\* C9: when a record has the exact target name, step 4 makes the leftmost such
\* record the last element, with the target group; the length stays and the
\* other records keep their order and fields.  Otherwise nothing changes.
C9_RelocateToEnd ==
    [][(pc = "step4" /\ pc' = "write")
          => LET hits == {i \in 1..Len(channels) :
                             channels[i].name = <<"ShandongJingjiGuangbo">>}
                 n == Len(channels)
             IN  IF hits # {}
                 THEN LET k == CHOOSE i \in hits : \A j \in hits : i <= j
                      IN  /\ Len(channels') = n
                          /\ channels'[n].url = channels[k].url
                          /\ channels'[n].name = channels[k].name
                          /\ channels'[n].tvg_name = channels[k].tvg_name
                          /\ channels'[n].original_index = channels[k].original_index
                          /\ channels'[n].group_title = <<"GuangboPindao">>
                          /\ \A i \in 1..(k - 1) : channels'[i] = channels[i]
                          /\ \A i \in (k + 1)..n : channels'[i - 1] = channels[i]
                 ELSE channels' = channels]_vars

\* step 4 moved the leftmost of two records of that name behind the other
C9_Witness ==
    /\ pc = "write"
    /\ Len(channels) >= 3
    /\ channels[Len(channels)].name = <<"ShandongJingjiGuangbo">>
    /\ channels[Len(channels)].group_title = <<"GuangboPindao">>
    /\ \E i \in 1..(Len(channels) - 1) :
          /\ channels[i].name = <<"ShandongJingjiGuangbo">>
          /\ channels[i].original_index > channels[Len(channels)].original_index

\* the fetched text's digest equals the stored digest
DigestStored == hash_file # <<>> /\ strip(hash_file[1]) = get_content_hash(content)

\* C10 as stated: a run whose fetched text has the stored digest parses
\* nothing and leaves the output document and the stored digest as they were,
\* whether the output document is present or absent.
C10_SkipIsNoOp ==
    [][(pc = "gate" /\ DigestStored /\ result' = "True")
          => /\ pc' = "done"
             /\ channels' = channels
             /\ hash_file' = hash_file
             /\ output_file' = output_file]_vars

\* C10 amended: such a run parses nothing and leaves the stored digest as it
\* was; it leaves the output document as it was if there is one, and if there
\* is none it writes a one-line placeholder document (or fails writing it).
C10_SkipKeepsDigest ==
    [][(pc = "gate" /\ DigestStored)
          => /\ pc' = "done"
             /\ channels' = channels
             /\ hash_file' = hash_file
             /\ output_file # <<>> => (output_file' = output_file /\ result' = "True")
             /\ (output_file = <<>> /\ result' = "True") => output_file' = <<Placeholder>>]_vars

\* a skipped run that found no output document
C10_Witness ==
    /\ pc = "done"
    /\ result = "True"
    /\ DigestStored
    /\ channels = <<>>
    /\ output_file = <<Placeholder>>

\* the output document holds a complete rendering of chans
OutputComplete(file, chans) ==
    \E now \in Times : file = <<generate_m3u_content(chans, now)>>

\* the digest store is written by one step only, the one that ends a run
\* whose fetch succeeded, whose gate answered 'changed' and whose output
\* document is written completely; a failed fetch or a failed write of the
\* output ends the run with False (exit status 1) and the stored digest as
\* it was
DigestCommitOrder ==
    /\ hash_file' # hash_file => (pc = "save" /\ pc' = "done")
    /\ pc = "save"
          => /\ remote.ok /\ content = remote.text
             /\ has_source_changed(hash_file, content)
             /\ OutputComplete(output_file, channels)
    /\ (pc = "start" /\ ~remote.ok)
          => (pc' = "done" /\ result' = "False" /\ hash_file' = hash_file)
    /\ (pc = "write" /\ ~OutputComplete(output_file', channels'))
          => (pc' = "done" /\ result' = "False" /\ hash_file' = hash_file)
    /\ (pc \in {"gate", "write"} /\ result' = "False")
          => (pc' = "done" /\ hash_file' = hash_file)
    /\ result' = "False" => main_exit_status(result') = 1

\* C11 as stated: the digest is committed last and at most once, and after
\* every failed fetch or failed write of the output document the run reports
\* failure with the stored digest as before, so that the next run with the
\* same input is not skipped.
C11_FailureKeepsNextRun ==
    [][/\ DigestCommitOrder
       /\ (pc \in {"gate", "write"} /\ result' = "False")
             => has_source_changed(hash_file', content')]_vars

\* C11 amended: as stated, the next run with the same input being not
\* skipped after a failed write in a run that was not skipped itself (the gate
\* had answered 'changed'); a skipped run whose placeholder write fails is
\* skipped again.
C11_DigestCommittedLast ==
    [][/\ DigestCommitOrder
       /\ (pc = "write" /\ result' = "False")
             => has_source_changed(hash_file', content')
       /\ (pc = "gate" /\ result' = "False")
             => ~has_source_changed(hash_file', content')]_vars

\* a run that parsed a changed text and failed writing the output, a digest
\* of another text being stored
C11_Witness ==
    /\ pc = "done"
    /\ result = "False"
    /\ channels # <<>>
    /\ hash_file = <<get_content_hash(GateTextA)>>
    /\ content = GateTextB
    /\ output_file = <<(<<>>)>>

\* some record of chans has a name for which test holds
SomeName(chans, test(_)) == \E i \in 1..Len(chans) : test(chans[i].name)

\* the duplicate step finds no source or no anchor
Step2Misses(chans) ==
    LET IsSource(name) == name = <<"ShandongWeishi">>
        IsAnchor(name) == contains(name, <<"CCTV1">>) \/ contains(name, <<"CCTV-1">>)
    IN  ~SomeName(chans, IsSource) \/ ~SomeName(chans, IsAnchor)

\* the relocate-set step finds no anchor or no source
Step3Misses(chans) ==
    LET IsAnchor(name) == contains(name, TargetPattern)
        IsSource(name) == \E p \in SourcePatterns : contains(name, p)
    IN  ~SomeName(chans, IsAnchor) \/ ~SomeName(chans, IsSource)

\* C12: process_channels takes its four steps one after the other without
\* raising; a duplicate or relocate-set step whose lookup misses leaves the
\* sequence exactly as it was, and the steps after it still run on it (step 4
\* still puts the record of its target name last, regrouped, and changes
\* nothing when no record has that name).
C12_SoftLookupMisses ==
    [][/\ pc = "step1" => (pc' = "step2" /\ result' = "none")
       /\ pc = "step2"
             => /\ pc' = "step3" /\ result' = "none"
                /\ Step2Misses(channels) => channels' = channels
       /\ pc = "step3"
             => /\ pc' = "step4" /\ result' = "none"
                /\ Step3Misses(channels) => channels' = channels
       /\ pc = "step4"
             => /\ pc' = "write" /\ result' = "none"
                /\ Len(channels') = Len(channels)
                /\ (\A i \in 1..Len(channels) :
                       channels[i].name # <<"ShandongJingjiGuangbo">>)
                      => channels' = channels
                /\ (\E i \in 1..Len(channels) :
                       channels[i].name = <<"ShandongJingjiGuangbo">>)
                      => /\ channels'[Len(channels')].name = <<"ShandongJingjiGuangbo">>
                         /\ channels'[Len(channels')].group_title = <<"GuangboPindao">>]_vars

\* steps 2 and 3 each found one of their two targets only, and step 4 then
\* moved its record from the middle to the end
C12_Witness ==
    /\ pc = "write"
    /\ Len(channels) = Len(parse_m3u(content))
    /\ Step2Misses(channels) /\ Step3Misses(channels)
    /\ \E i, j \in 1..(Len(channels) - 1) :
          /\ channels[i].name = <<"ShandongWeishi">>
          /\ channels[j].name = <<"CCTV4Europe">>
          /\ channels[i].original_index < channels[Len(channels)].original_index
          /\ channels[j].original_index > channels[Len(channels)].original_index
    /\ channels[Len(channels)].name = <<"ShandongJingjiGuangbo">>
    /\ channels[Len(channels)].group_title = <<"GuangboPindao">>

====
